---- MODULE Spec2Model ----
(***************************************************************************)
(* csv-stats: one invocation of the command line tool of src/main.rs.      *)
(*                                                                         *)
(* main parses the command line, calls process_csv and prints the          *)
(* statistics.  process_csv builds a lazy CSV scan (LazyCsvReader ...      *)
(* finish), a five-aggregate selection on the requested column, and        *)
(* collects it.  The behaviour of the query is that of the polars          *)
(* expressions the source names:                                           *)
(*   - with_infer_schema_length(Some(n)): a column's type is inferred from *)
(*     the first n data rows; a field that does not parse as the inferred  *)
(*     numeric type is a parse error of the scan;                          *)
(*   - an empty field is a null;                                           *)
(*   - col(c) on a schema without c fails the plan with ColumnNotFound,    *)
(*     whose message names c and the schema's column names;                *)
(*   - Expr::count() is the number of NON-NULL values (Expr::len() is the  *)
(*     number of rows);                                                    *)
(*   - Expr::cast(Float64) is the non-strict cast (Expr::strict_cast is    *)
(*     the strict one): a string that is no number becomes a null;         *)
(*   - min, max and mean skip nulls and are null without a non-null value; *)
(*     sum skips nulls and is 0 without a non-null value.                  *)
(*                                                                         *)
(* f64 values are modelled as exact rationals [num, den] in lowest terms   *)
(* with den > 0; the fields of the modelled files are small integers, on   *)
(* which f64 addition and comparison are exact.                            *)
(* Option<T> is modelled as a sequence: <<>> is None, <<v>> is Some(v).    *)
(***************************************************************************)
EXTENDS Integers, Sequences, FiniteSets, TLC

\* Largest number of data rows of a modelled file is InferSchemaLength + ExtraRows.
\* The source sets the inference prefix to 100 rows (with_infer_schema_length,
\* main.rs:65); the model scales the prefix down and keeps rows beyond it.
InferSchemaLength == 2
ExtraRows == 1
MaxRows == InferSchemaLength + ExtraRows

\* The text of a CSV field.  "" is the empty field.
Fields == {"", "5", "10", "15", "abc"}
\* Column names that occur in headers or on the command line.
Headers == { <<"amount">>, <<"id", "amount">>, <<"id", "Amount">> }
ColumnNames == {"amount", "Amount", "id", "Total"}

VARIABLES
    file_exists,   \* whether cli.file_path names a readable file
    header,        \* the file's header row: the column names, in order
    cells,         \* the data fields of the file's last column, one per row
    column_name,   \* cli.column_name
    pc,            \* position in main / process_csv
    schema,        \* the scan's schema: <<[name, dtype]>>, set by finish()
    stages,        \* the pipeline stages entered so far, in order
    f64col,        \* the selected column cast to Float64
    stats_df,      \* Option: the one-row result frame of collect()
    stats,         \* Option<SelectedStats> returned by process_csv
    err,           \* Option: the error process_csv returned
    stdout,        \* the lines printed by main
    exit_code      \* -1 while running, then the process's exit status

vars == << file_exists, header, cells, column_name, pc, schema, stages,
           f64col, stats_df, stats, err, stdout, exit_code >>

inputs == << file_exists, header, cells, column_name >>

None == << >>
Some(v) == << v >>
IsSome(o) == o # << >>
Unwrap(o) == o[1]

----------------------------------------------------------------------------
\* f64 as exact rationals.

RECURSIVE Gcd(_, _)
Gcd(a, b) == IF b = 0 THEN a ELSE Gcd(b, a % b)

Abs(n) == IF n < 0 THEN -n ELSE n

F64(n) == [num |-> n, den |-> 1]

\* a / b for b > 0, in lowest terms.
F64Div(a, b) ==
    LET g == Gcd(Abs(a.num), a.den * b)
        d == IF g = 0 THEN 1 ELSE g
    IN  [num |-> a.num \div d, den |-> (a.den * b) \div d]

F64Add(a, b) == F64Div([num |-> a.num * b.den + b.num * a.den, den |-> a.den * b.den], 1)

F64Le(a, b) == a.num * b.den <= b.num * a.den

----------------------------------------------------------------------------
\* The file as a table.

\* Data fields of column `name`: the last column holds `cells`, every other
\* column holds the field "10" in each row.
RawColumn(name) ==
    IF name = header[Len(header)] THEN cells
    ELSE [i \in 1..Len(cells) |-> "10"]

IsNumeric(s) == s \in {"5", "10", "15"}

\* Parse of a numeric field.
ParseNum(s) ==
    CASE s = "5" -> 5
      [] s = "10" -> 10
      [] s = "15" -> 15

\* Schema inference over the first InferSchemaLength rows: a column whose
\* sampled non-empty fields all parse as numbers is Int64; a column with a
\* sampled field that does not, or with no sampled value at all, is String.
InferDtype(col) ==
    LET n == IF Len(col) < InferSchemaLength THEN Len(col) ELSE InferSchemaLength
        sample == { col[i] : i \in 1..n } \ {""}
    IN  IF sample # {} /\ \A s \in sample : IsNumeric(s) THEN "Int64" ELSE "String"

InferSchema ==
    [i \in 1..Len(header) |-> [name |-> header[i], dtype |-> InferDtype(RawColumn(header[i]))]]

SchemaNames(sch) == [i \in 1..Len(sch) |-> sch[i].name]

\* ASCII lower-casing of the column names of the model.
Lower(s) == IF s = "Amount" THEN "amount" ELSE IF s = "Total" THEN "total" ELSE s

\* Variant of HasColumn: the lookup ignores case.
HasColumnIgnoreCase(sch, name) == \E i \in 1..Len(sch) : Lower(sch[i].name) = Lower(name)

\* Exact, case-sensitive lookup of a column in the schema.
HasColumn(sch, name) == \E i \in 1..Len(sch) : sch[i].name = name

DtypeOf(sch, name) == sch[CHOOSE i \in 1..Len(sch) : sch[i].name = name].dtype

----------------------------------------------------------------------------
\* The query: scan, cast, aggregate.

\* The scan reads a column as its inferred type: every non-empty field of an
\* Int64 column must parse as a number; any text is a String value.
ParseOk(col, dtype) ==
    dtype = "Int64" => \A i \in 1..Len(col) : col[i] = "" \/ IsNumeric(col[i])

\* col(c).cast(DataType::Float64): the non-strict cast.  A null stays null,
\* a number converts, a string converts when it parses and is null otherwise.
CastValue(s) ==
    IF s # "" /\ IsNumeric(s) THEN Some(F64(ParseNum(s))) ELSE None

CastF64(col) == [i \in 1..Len(col) |-> CastValue(col[i])]

\* col(c).count(): the number of non-null values of the column as scanned.
CountAgg(col) == Cardinality({ i \in 1..Len(col) : col[i] # "" })

NullCount(fc) == Cardinality({ i \in 1..Len(fc) : fc[i] = None })

\* Variant of MinStep / MaxStep: a null enters the reduction as 0.
MinStepNullAsZero(acc, x) ==
    LET y == IF x = None THEN Some(F64(0)) ELSE x
    IN  IF acc = None THEN y
        ELSE IF F64Le(Unwrap(y), Unwrap(acc)) THEN y ELSE acc

\* One step of the null-skipping min / max reductions.
MinStep(acc, x) ==
    IF x = None THEN acc
    ELSE IF acc = None THEN x
    ELSE IF F64Le(Unwrap(x), Unwrap(acc)) THEN x ELSE acc

MaxStep(acc, x) ==
    IF x = None THEN acc
    ELSE IF acc = None THEN x
    ELSE IF F64Le(Unwrap(acc), Unwrap(x)) THEN x ELSE acc

SumStep(acc, x) == IF x = None THEN acc ELSE F64Add(acc, Unwrap(x))

RECURSIVE FoldMin(_, _, _)
FoldMin(fc, i, acc) ==
    IF i > Len(fc) THEN acc ELSE FoldMin(fc, i + 1, MinStep(acc, fc[i]))

RECURSIVE FoldMax(_, _, _)
FoldMax(fc, i, acc) ==
    IF i > Len(fc) THEN acc ELSE FoldMax(fc, i + 1, MaxStep(acc, fc[i]))

RECURSIVE FoldSum(_, _, _)
FoldSum(fc, i, acc) ==
    IF i > Len(fc) THEN acc ELSE FoldSum(fc, i + 1, SumStep(acc, fc[i]))

\* .min() / .max(): null when the column has no non-null value.
MinAgg(fc) == FoldMin(fc, 1, None)

MaxAgg(fc) == FoldMax(fc, 1, None)

\* .sum(): the sum of the non-null values, 0 when there is none.
SumAgg(fc) == Some(FoldSum(fc, 1, F64(0)))

\* Variant of MeanAgg: the divisor is the number of rows.
MeanAggOverRows(fc) ==
    IF Len(fc) - NullCount(fc) = 0 THEN None
    ELSE Some(F64Div(FoldSum(fc, 1, F64(0)), Len(fc)))

\* .mean(): the sum over the number of non-null values, null when there is none.
MeanAgg(fc) ==
    LET n == Len(fc) - NullCount(fc)
    IN  IF n = 0 THEN None ELSE Some(F64Div(FoldSum(fc, 1, F64(0)), n))

\* get_optional_f64: AnyValue::Null is None, any other value is extracted.
get_optional_f64(df, stat_name) ==
    IF df[stat_name] = None THEN None ELSE Some(Unwrap(df[stat_name]))

SelectedStats(df) ==
    [ count |-> df.count,
      min   |-> get_optional_f64(df, "min"),
      max   |-> get_optional_f64(df, "max"),
      sum   |-> get_optional_f64(df, "sum"),
      mean  |-> get_optional_f64(df, "mean") ]

----------------------------------------------------------------------------
\* Printing.

\* format!("{:.4}", v): v rounded to four decimal places, as the integer
\* number of ten-thousandths (values of the model are non-negative).
Fixed4(v) == (2 * 10000 * v.num + v.den) \div (2 * v.den)

\* Variant of format_opt: None is printed as the number 0.
format_opt_zero(val) ==
    IF IsSome(val) THEN [na |-> FALSE, digits |-> Fixed4(Unwrap(val))]
    ELSE [na |-> FALSE, digits |-> 0]

\* format_opt: four decimals for Some(v), the marker N/A for None.
format_opt(val) ==
    IF IsSome(val) THEN [na |-> FALSE, digits |-> Fixed4(Unwrap(val))]
    ELSE [na |-> TRUE, digits |-> 0]

StatLine(label, text) ==
    [label |-> label, name |-> "", na |-> text.na, digits |-> text.digits]

\* The i-th println! of main.
Line(i, st) ==
    CASE i = 1 -> [label |-> "Header", name |-> column_name, na |-> FALSE, digits |-> 0]
      [] i = 2 -> StatLine("Count", [na |-> FALSE, digits |-> st.count])
      [] i = 3 -> StatLine("Min", format_opt(st.min))
      [] i = 4 -> StatLine("Max", format_opt(st.max))
      [] i = 5 -> StatLine("Sum", format_opt(st.sum))
      [] i = 6 -> StatLine("Mean", format_opt(st.mean))

NumLines == 6

----------------------------------------------------------------------------
\* The invocation.

Init ==
    /\ file_exists \in BOOLEAN
    /\ header \in Headers
    /\ cells \in UNION { [1..n -> Fields] : n \in 0..MaxRows }
    /\ column_name \in ColumnNames
    /\ pc = "start"
    /\ schema = << >>
    /\ stages = << >>
    /\ f64col = << >>
    /\ stats_df = None
    /\ stats = None
    /\ err = None
    /\ stdout = << >>
    /\ exit_code = -1

Error(kind, column, columns) == [kind |-> kind, column |-> column, columns |-> columns]

\* LazyCsvReader::new(..).with_has_header(true).with_infer_schema_length(..)
\* .finish()?: opens the file and infers the schema.
Finish ==
    /\ pc = "start"
    /\ stages' = Append(stages, "load")
    /\ IF file_exists
       THEN /\ schema' = InferSchema
            /\ pc' = "plan"
            /\ UNCHANGED err
       ELSE /\ err' = Some(Error("FileNotFound", "", << >>))
            /\ pc' = "error"
            /\ UNCHANGED schema
    /\ UNCHANGED << inputs, f64col, stats_df, stats, stdout, exit_code >>

\* lf.select(aggregations).collect()?, plan resolution: col(column_name)
\* against the schema.
Resolve ==
    /\ pc = "plan"
    /\ stages' = Append(stages, "resolve")
    /\ IF HasColumn(schema, column_name)
       THEN /\ pc' = "scan"
            /\ UNCHANGED err
       ELSE /\ err' = Some(Error("ColumnNotFound", column_name, SchemaNames(schema)))
            /\ pc' = "error"
    /\ UNCHANGED << inputs, schema, f64col, stats_df, stats, stdout, exit_code >>

\* collect(), execution: the selected column is read as its inferred type
\* and cast to Float64.
Coerce ==
    /\ pc = "scan"
    /\ stages' = Append(stages, "coerce")
    /\ IF ParseOk(RawColumn(column_name), DtypeOf(schema, column_name))
       THEN /\ f64col' = CastF64(RawColumn(column_name))
            /\ pc' = "aggregate"
            /\ UNCHANGED err
       ELSE /\ err' = Some(Error("ComputeError", column_name, << >>))
            /\ pc' = "error"
            /\ UNCHANGED f64col
    /\ UNCHANGED << inputs, schema, stats_df, stats, stdout, exit_code >>

\* collect(), execution: the five aggregations; count is taken on the
\* column as scanned, the other four on the cast column.
Aggregate ==
    /\ pc = "aggregate"
    /\ stages' = Append(stages, "aggregate")
    /\ stats_df' = Some([ count |-> CountAgg(RawColumn(column_name)),
                          min   |-> MinAgg(f64col),
                          max   |-> MaxAgg(f64col),
                          sum   |-> SumAgg(f64col),
                          mean  |-> MeanAgg(f64col) ])
    /\ pc' = "collected"
    /\ UNCHANGED << inputs, schema, f64col, stats, err, stdout, exit_code >>

\* process_csv builds SelectedStats from the result frame and returns it.
Extract ==
    /\ pc = "collected"
    /\ stats' = Some(SelectedStats(Unwrap(stats_df)))
    /\ pc' = "returned"
    /\ UNCHANGED << inputs, schema, stages, f64col, stats_df, err, stdout, exit_code >>

\* main prints the next of its six lines.
PrintLine ==
    /\ pc = "returned"
    /\ Len(stdout) < NumLines
    /\ stdout' = Append(stdout, Line(Len(stdout) + 1, Unwrap(stats)))
    /\ UNCHANGED << inputs, pc, schema, stages, f64col, stats_df, stats, err, exit_code >>

\* main returns Ok(()) after the last line.
MainOk ==
    /\ pc = "returned"
    /\ Len(stdout) = NumLines
    /\ exit_code' = 0
    /\ pc' = "exited"
    /\ UNCHANGED << inputs, schema, stages, f64col, stats_df, stats, err, stdout >>

\* Variant of MainErr: the error is dropped and main returns Ok(()).
MainErrSwallowed ==
    /\ pc = "error"
    /\ exit_code' = 0
    /\ pc' = "exited"
    /\ UNCHANGED << inputs, schema, stages, f64col, stats_df, stats, err, stdout >>

\* process_csv(..)? in main: the error is returned from main and the
\* process ends with a failure status.
MainErr ==
    /\ pc = "error"
    /\ exit_code' = 1
    /\ pc' = "exited"
    /\ UNCHANGED << inputs, schema, stages, f64col, stats_df, stats, err, stdout >>

Next ==
    \/ Finish
    \/ Resolve
    \/ Coerce
    \/ Aggregate
    \/ Extract
    \/ PrintLine
    \/ MainOk
    \/ MainErr

Spec == Init /\ [][Next]_vars

----------------------------------------------------------------------------
\* Properties.

\* The selected column as the file holds it, its row count L, and V: the
\* non-missing values of the column coerced to Float64.
Selected == RawColumn(column_name)
L == Len(Selected)
V == SelectSeq(f64col, IsSome)
Resolvable == file_exists /\ \E i \in 1..Len(header) : header[i] = column_name
Returned == IsSome(stats)
Result == Unwrap(stats)

F64Eq(a, b) == a.num * b.den = b.num * a.den

RECURSIVE SeqSum(_)
SeqSum(seq) == IF seq = << >> THEN 0 ELSE Unwrap(Head(seq)).num + SeqSum(Tail(seq))

Values == { Unwrap(V[i]) : i \in 1..Len(V) }
Smallest == CHOOSE x \in Values : \A y \in Values : F64Le(x, y)
Largest == CHOOSE x \in Values : \A y \in Values : F64Le(y, x)

\* C1: whenever process_csv returns statistics, count equals the row count L
\* of the table, missing entries included.
C1_CountIsRowCount == Returned => Result.count = L

\* C2: a selected column holding a non-missing field that is not numeric never
\* yields statistics: process_csv returns an error once the query has run.
C2_CoercionAllOrNothing ==
    (Resolvable /\ \E i \in 1..L : Selected[i] # "" /\ ~IsNumeric(Selected[i]))
        => /\ ~Returned
           /\ pc = "exited" => (IsSome(err) /\ Unwrap(err).kind = "ComputeError")

\* C3: for a resolvable column without any non-missing field, process_csv
\* succeeds with min, max, sum and mean all None and count = L.
C3_AllAbsentWhenNoValue ==
    (Resolvable /\ pc = "exited" /\ \A i \in 1..L : Selected[i] = "")
        => /\ Returned
           /\ Result.min = None /\ Result.max = None
           /\ Result.sum = None /\ Result.mean = None
           /\ Result.count = L

\* C4: whenever sum and mean are both present in the returned statistics,
\* mean times the number of non-missing entries |V| equals sum.
C4_MeanIsSumOverNonMissing ==
    (Returned /\ IsSome(Result.sum) /\ IsSome(Result.mean))
        => /\ Len(V) > 0
           /\ F64Eq([num |-> Unwrap(Result.mean).num * Len(V), den |-> Unwrap(Result.mean).den],
                    Unwrap(Result.sum))

\* C4 witness: statistics returned for a column with a missing and a present
\* entry, where dividing by L would give another mean.
C4_Witness ==
    /\ Returned /\ IsSome(Result.mean)
    /\ 0 < Len(V) /\ Len(V) < L
    /\ ~F64Eq([num |-> Unwrap(Result.mean).num * L, den |-> Unwrap(Result.mean).den],
              Unwrap(Result.sum))

StageOrder == << "load", "resolve", "coerce", "aggregate" >>

\* C5: the stages are entered in the order load, resolve, coerce, aggregate;
\* once a stage has failed there are no statistics, nothing is printed and
\* the process ends with a non-zero status; lines are printed and the process
\* ends with status 0 only after all four stages have succeeded.
C5_FailureAbortsInvocation ==
    /\ Len(stages) <= Len(StageOrder)
    /\ \A i \in 1..Len(stages) : stages[i] = StageOrder[i]
    /\ IsSome(err) => /\ ~Returned
                      /\ stats_df = None
                      /\ stdout = << >>
                      /\ exit_code # 0
                      /\ pc \in {"error", "exited"}
    /\ (pc = "exited" /\ IsSome(err)) => exit_code = 1
    /\ stdout # << >> => /\ stages = StageOrder
                         /\ err = None
                         /\ Returned
    /\ exit_code = 0 => /\ Len(stdout) = NumLines
                        /\ stages = StageOrder
                        /\ err = None
    /\ pc = "exited" => (IsSome(err) \/ exit_code = 0)

\* C5 witness: the coerce stage failed after load and resolve succeeded, and
\* the process has ended in the failed state.
C5_Witness ==
    /\ pc = "exited" /\ exit_code = 1
    /\ IsSome(err) /\ Unwrap(err).kind = "ComputeError"
    /\ stages = << "load", "resolve", "coerce" >>

C7_AggregatesOverNonMissing ==
    /\ (Returned /\ Len(V) > 0)
           => /\ Result.min = Some(Smallest)
              /\ Result.max = Some(Largest)
              /\ Result.sum = Some(F64(SeqSum(V)))
    /\ (Returned /\ Selected = << "5", "15", "10" >>)
           => Result = [ count |-> 3, min |-> Some(F64(5)), max |-> Some(F64(15)),
                         sum |-> Some(F64(30)), mean |-> Some(F64(10)) ]

\* C7 witness: statistics returned for a column with a missing entry and two
\* different non-missing values.
C7_Witness ==
    /\ Returned
    /\ Len(V) < L
    /\ Cardinality(Values) >= 2

Labels == << "Header", "Count", "Min", "Max", "Sum", "Mean" >>

\* The printed text of an aggregate: N/A exactly when it is absent, else the
\* value to four decimals.
Shows(line, val) ==
    /\ line.na <=> (val = None)
    /\ IsSome(val) =>
           LET v == Unwrap(val)
               d == line.digits * v.den - 10000 * v.num
           IN  2 * Abs(d) <= v.den

\* C8: the lines are printed in the order header, Count, Min, Max, Sum, Mean;
\* on success the header names the column, Count is a non-negative integer and
\* never N/A, and each of Min, Max, Sum, Mean is N/A exactly when absent.
C8_PrintedLines ==
    /\ \A i \in 1..Len(stdout) : stdout[i].label = Labels[i]
    /\ (pc = "exited" /\ exit_code = 0)
           => /\ Len(stdout) = NumLines
              /\ stdout[1].name = column_name
              /\ ~stdout[2].na /\ stdout[2].digits = Result.count /\ stdout[2].digits >= 0
              /\ Shows(stdout[3], Result.min)
              /\ Shows(stdout[4], Result.max)
              /\ Shows(stdout[5], Result.sum)
              /\ Shows(stdout[6], Result.mean)

\* C8 witness: a successful run that printed N/A for an absent aggregate.
C8_Witness ==
    /\ pc = "exited" /\ exit_code = 0
    /\ Result.min = None /\ stdout[3].na

\* C10: in returned statistics min, max, sum and mean are all present or all
\* absent; when present min <= mean <= max, and all four are equal when
\* exactly one value is non-missing.
C10_AllOrNoneAndOrdered ==
    Returned =>
        /\ \/ IsSome(Result.min) /\ IsSome(Result.max) /\ IsSome(Result.sum) /\ IsSome(Result.mean)
           \/ Result.min = None /\ Result.max = None /\ Result.sum = None /\ Result.mean = None
        /\ (IsSome(Result.min) /\ IsSome(Result.max) /\ IsSome(Result.mean))
               => /\ F64Le(Unwrap(Result.min), Unwrap(Result.mean))
                  /\ F64Le(Unwrap(Result.mean), Unwrap(Result.max))
        /\ Len(V) = 1 => /\ Result.min = Result.max
                         /\ Result.min = Result.mean
                         /\ Result.min = Result.sum
====
